---- MODULE Spec2Model ----
(***************************************************************************)
(* AiPayingRent: the monthly simulation engine of src/script.js.           *)
(*                                                                         *)
(* Numbers.  JavaScript numbers are modelled in fixed point:               *)
(*   money      in dimes            (MoneyScale units per currency unit),  *)
(*   traits     in tenths           (ScoreScale units per 1.0),            *)
(*   jitter     in tenths of a score point, -25 .. 24 for [-2.5, 2.5),     *)
(*   event draw in thousandths, 0 .. 999 for Math.random() in [0, 1),      *)
(*   return     in thousandths, -50 .. 49 for [-0.05, 0.05).               *)
(* A score is kept multiplied by expenses * ScoreScale, so that the        *)
(* comparison of two scores is exact although emergencyMonths is a         *)
(* quotient.  Products that leave the grid are rounded down.               *)
(***************************************************************************)
EXTENDS Integers, Sequences, FiniteSets, TLC

VARIABLES
    economy,       \* the global economy object, [recession |-> BOOLEAN]
    agents,        \* the agents array, a sequence of agent records
    currentMonth,  \* the simulation clock
    actions,       \* the action map simulateMonth hands to updateUI
    timer,         \* TRUE while a call of simulateMonth is scheduled
    ai,            \* function-level runs: the agent runMonth works on
    pc,            \* function-level runs: the function runMonth applies next
    last,          \* function-level runs: the function applied last
    start,         \* function-level runs: ai when runMonth was entered, and where
    pre,           \* function-level runs: ai before the last step
    draw,          \* function-level runs: the random draw of the last step
    action         \* function-level runs: the action decisionEngine returned

vars ==
    <<economy, agents, currentMonth, actions, timer,
      ai, pc, last, start, pre, draw, action>>

simVars == <<agents, currentMonth, actions, timer>>

fnVars == <<ai, pc, last, start, pre, draw, action>>

----------------------------------------------------------------------------
(* Units and program constants *)

\* An amount of money, in dimes.
Money(amount) == amount * 10

\* A number of score points (or a trait in [0, 1] times ten), in tenths.
Points(p) == p * 10

TOTAL_MONTHS == 60

INITIAL_CASH == Money(5000)

SALARY == Money(2000)

RENT == Money(800)

FOOD == Money(400)

OTHER_EXPENSES == Money(300)

\* randomEvents: the bands of the draw, in thousandths, and the effects
RECESSION_JOB_LOSS == 80

JOB_LOSS == 30

UNEXPECTED_EXPENSE_BAND == 60

JOB_LOSS_STRESS == 20

UNEXPECTED_EXPENSE == Money(2000)

\* decisionEngine and executeAction
BUFFER_MONTHS == 3

BUSINESS_MIN_CASH == Money(5000)

BUSINESS_COST == Money(5000)

BUSINESS_REVENUE == Money(1000)

FORBIDDEN == Points(-100)

JOB_SEARCH_SCORE == Points(100)

\* updateStress
RENT_STRESS == 15

STRESS_RECOVERY == 5

(* Bounds of the model *)

\* The last NumAgents agents of the agents array are simulated (no agent
\* reads or writes another one).
NumAgents == 1

\* simulateMonth is followed for the months 1 .. MaxMonths.
MaxMonths == 4

----------------------------------------------------------------------------
(* Agents *)

null == <<>>

\* createAI; the traits are given in tenths.  The display colour is left out.
createAI(name, riskTolerance, discipline, intelligence) ==
    [name |-> name,
     cash |-> INITIAL_CASH,
     salary |-> SALARY,
     rent |-> RENT,
     food |-> FOOD,
     otherExpenses |-> OTHER_EXPENSES,
     investments |-> 0,
     riskTolerance |-> riskTolerance,
     discipline |-> discipline,
     intelligence |-> intelligence,
     stress |-> 0,
     employed |-> TRUE,
     sideHustle |-> FALSE,
     business |-> null,
     alive |-> TRUE]

Population ==
    << createAI("Conservative", 2, 9, 8),
       createAI("Balanced", 5, 7, 8),
       createAI("Risky", 9, 3, 7) >>

Max(a, b) == IF a > b THEN a ELSE b

----------------------------------------------------------------------------
(* The steps of a month *)

\* processIncome with the three sources chained by else: only one is paid.
processIncome_Exclusive(a, hustle) ==
    IF a.employed THEN [a EXCEPT !.cash = @ + a.salary]
    ELSE IF a.sideHustle THEN [a EXCEPT !.cash = @ + hustle]
    ELSE IF a.business # null THEN [a EXCEPT !.cash = @ + a.business.revenue]
    ELSE a

\* processIncome; hustle is the side-hustle draw 300 + Math.random() * 400,
\* which is taken only when the agent has a side hustle.
processIncome(a, hustle) ==
    LET s1 == IF a.employed THEN [a EXCEPT !.cash = @ + a.salary] ELSE a
        s2 == IF s1.sideHustle THEN [s1 EXCEPT !.cash = @ + hustle] ELSE s1
    IN  IF s2.business # null
        THEN [s2 EXCEPT !.cash = @ + s2.business.revenue]
        ELSE s2

\* processExpenses adding the other costs into rent on the way.
processExpenses_RentAbsorbs(a) ==
    LET total == a.rent + a.food + a.otherExpenses
    IN  [a EXCEPT !.rent = total, !.cash = @ - total]

\* processExpenses: the three costs leave the cash.
processExpenses(a) ==
    [a EXCEPT !.cash = @ - (a.rent + a.food + a.otherExpenses)]

\* randomEvents testing the unexpected expense before the job losses.
randomEvents_ExpenseFirst(a, recession, r) ==
    IF r < UNEXPECTED_EXPENSE_BAND /\ r >= JOB_LOSS
    THEN [a EXCEPT !.cash = @ - UNEXPECTED_EXPENSE]
    ELSE IF recession /\ r < RECESSION_JOB_LOSS
    THEN [a EXCEPT !.employed = FALSE, !.stress = @ + JOB_LOSS_STRESS]
    ELSE IF r < JOB_LOSS
    THEN [a EXCEPT !.employed = FALSE, !.stress = @ + JOB_LOSS_STRESS]
    ELSE a

\* randomEvents with three separate ifs instead of an else-if chain.
randomEvents_NoElse(a, recession, r) ==
    LET s1 == IF recession /\ r < RECESSION_JOB_LOSS
              THEN [a EXCEPT !.employed = FALSE, !.stress = @ + JOB_LOSS_STRESS]
              ELSE a
        s2 == IF r < JOB_LOSS
              THEN [s1 EXCEPT !.employed = FALSE, !.stress = @ + JOB_LOSS_STRESS]
              ELSE s1
    IN  IF r < UNEXPECTED_EXPENSE_BAND
        THEN [s2 EXCEPT !.cash = @ - UNEXPECTED_EXPENSE]
        ELSE s2

\* randomEvents with the recession band stacked on the ordinary one: 8% + 3%.
randomEvents_Stacked(a, recession, r) ==
    IF recession /\ r < RECESSION_JOB_LOSS + JOB_LOSS
    THEN [a EXCEPT !.employed = FALSE, !.stress = @ + JOB_LOSS_STRESS]
    ELSE IF r < JOB_LOSS
    THEN [a EXCEPT !.employed = FALSE, !.stress = @ + JOB_LOSS_STRESS]
    ELSE IF r < UNEXPECTED_EXPENSE_BAND
    THEN [a EXCEPT !.cash = @ - UNEXPECTED_EXPENSE]
    ELSE a

\* randomEvents; r is the draw Math.random(), in thousandths.
randomEvents(a, recession, r) ==
    IF recession /\ r < RECESSION_JOB_LOSS
    THEN [a EXCEPT !.employed = FALSE, !.stress = @ + JOB_LOSS_STRESS]
    ELSE IF r < JOB_LOSS
    THEN [a EXCEPT !.employed = FALSE, !.stress = @ + JOB_LOSS_STRESS]
    ELSE IF r < UNEXPECTED_EXPENSE_BAND
    THEN [a EXCEPT !.cash = @ - UNEXPECTED_EXPENSE]
    ELSE a

\* getContext; emergencyMonths is the quotient cash / expenses, kept as its
\* two terms (expenses is positive for every agent createAI makes).
getContext(a) ==
    [cash |-> a.cash, expenses |-> a.rent + a.food + a.otherExpenses]

\* The values a division by zero gives in the script's arithmetic. Infinity
\* stands above every finite score and 0 - Infinity below; NaN has no order.
Infinity == Points(100000000)
NaN == Infinity + 1

isFinite(x) == x # Infinity /\ x # 0 - Infinity /\ x # NaN

\* cash / 0: no error is raised, the quotient is Infinity, -Infinity or NaN.
divideByZero(cash) ==
    IF cash > 0 THEN Infinity ELSE IF cash < 0 THEN 0 - Infinity ELSE NaN

\* x + y for a finite y: a value that is not finite absorbs it.
plus(x, y) == IF isFinite(x) THEN x + y ELSE x

\* x > y: false as soon as one side is NaN.
greater(x, y) == x # NaN /\ y # NaN /\ x > y

\* The keys of the scores object, in the order Object.keys lists them.
ActionKeys == <<"save", "invest", "start_business", "job_search">>

\* baseScores with the test of job_search inverted.
baseScores_Inverted(a) ==
    LET E == a.rent + a.food + a.otherExpenses
    IN  [save |->
            (BUFFER_MONTHS * E - a.cash) * Points(20)
              + E * (a.discipline * 10 - a.riskTolerance * 5),
         invest |->
            IF a.cash > BUFFER_MONTHS * E
            THEN a.cash * Points(5) + E * (a.discipline * 10)
            ELSE E * FORBIDDEN,
         start_business |->
            IF a.cash > BUSINESS_MIN_CASH /\ a.business = null
            THEN E * (a.riskTolerance * 30)
            ELSE E * FORBIDDEN,
         job_search |->
            IF a.employed THEN E * JOB_SEARCH_SCORE ELSE E * (0 - JOB_SEARCH_SCORE)]

\* baseScores without the test for an existing business.
baseScores_NoBusinessTest(a) ==
    LET E == a.rent + a.food + a.otherExpenses
    IN  [save |->
            (BUFFER_MONTHS * E - a.cash) * Points(20)
              + E * (a.discipline * 10 - a.riskTolerance * 5),
         invest |->
            IF a.cash > BUFFER_MONTHS * E
            THEN a.cash * Points(5) + E * (a.discipline * 10)
            ELSE E * FORBIDDEN,
         start_business |->
            IF a.cash > BUSINESS_MIN_CASH
            THEN E * (a.riskTolerance * 30)
            ELSE E * FORBIDDEN,
         job_search |->
            IF ~a.employed THEN E * JOB_SEARCH_SCORE ELSE E * (0 - JOB_SEARCH_SCORE)]

\* The scores object of decisionEngine before the jitter, for an agent whose
\* expenses are 0, in tenths of a point. emergencyMonths is not finite:
\* (3 - emergencyMonths) * 20 + ... is its opposite (or NaN), and the test
\* emergencyMonths > 3 holds for Infinity only.
zeroCostScores(a) ==
    LET emergencyMonths == divideByZero(getContext(a).cash)
    IN  [save |->
            IF emergencyMonths = NaN THEN NaN ELSE 0 - emergencyMonths,
         invest |->
            IF emergencyMonths = Infinity THEN Infinity ELSE FORBIDDEN,
         start_business |->
            IF a.cash > BUSINESS_MIN_CASH /\ a.business = null
            THEN a.riskTolerance * 30
            ELSE FORBIDDEN,
         job_search |->
            IF ~a.employed THEN JOB_SEARCH_SCORE ELSE 0 - JOB_SEARCH_SCORE]

\* The scores object of decisionEngine before the jitter; each score is
\* multiplied by expenses * 10 (tenths of a point times expenses).
baseScores(a) ==
    LET context == getContext(a)
        E == context.expenses
    IN  IF E = 0 THEN zeroCostScores(a) ELSE
        [save |->
            (BUFFER_MONTHS * E - context.cash) * Points(20)
              + E * (a.discipline * 10 - a.riskTolerance * 5),
         invest |->
            IF context.cash > BUFFER_MONTHS * E
            THEN context.cash * Points(5) + E * (a.discipline * 10)
            ELSE E * FORBIDDEN,
         start_business |->
            IF a.cash > BUSINESS_MIN_CASH /\ a.business = null
            THEN E * (a.riskTolerance * 30)
            ELSE E * FORBIDDEN,
         job_search |->
            IF ~a.employed THEN E * JOB_SEARCH_SCORE ELSE E * (0 - JOB_SEARCH_SCORE)]

\* scores[k] += (Math.random() - 0.5) * 5, for every key; jitter[i] is the
\* draw for the i-th key, in tenths of a point.
jitteredScores(a, jitter) ==
    LET base == baseScores(a)
        E == getContext(a).expenses
        scale == IF E = 0 THEN 1 ELSE E
    IN  [i \in 1..Len(ActionKeys) |->
            plus(base[ActionKeys[i]], scale * jitter[i])]

\* The callback with >= for >: on a tie the accumulator stays.
better_KeepOnTie(scores, x, y) == IF scores[x] >= scores[y] THEN x ELSE y

\* The callback of the reduce: keeps the accumulator x only when its score
\* is strictly greater than that of the next key y.
better(scores, x, y) == IF greater(scores[x], scores[y]) THEN x ELSE y

\* Object.keys(scores).reduce(...): a left fold without initial value.
RECURSIVE reduceBest(_, _)
reduceBest(scores, n) ==
    IF n = 1 THEN 1 ELSE better(scores, reduceBest(scores, n - 1), n)

\* The key decisionEngine picks.
bestAction(a, jitter) ==
    ActionKeys[reduceBest(jitteredScores(a, jitter), Len(ActionKeys))]

\* executeAction investing a tenth of the cash instead of a fifth.
executeAction_InvestTenth(a, act) ==
    CASE act = "invest" ->
            LET amount == a.cash \div 10
            IN  [a EXCEPT !.investments = @ + amount, !.cash = @ - amount]
      [] act = "start_business" ->
            [a EXCEPT !.cash = @ - BUSINESS_COST,
                      !.business = [revenue |-> BUSINESS_REVENUE]]
      [] act = "job_search" ->
            [a EXCEPT !.employed = TRUE]
      [] OTHER -> a

\* executeAction whose invest case forgets to take the amount out of cash.
executeAction_InvestKeepsCash(a, act) ==
    CASE act = "invest" ->
            LET amount == a.cash \div 5
            IN  [a EXCEPT !.investments = @ + amount]
      [] act = "start_business" ->
            [a EXCEPT !.cash = @ - BUSINESS_COST,
                      !.business = [revenue |-> BUSINESS_REVENUE]]
      [] act = "job_search" ->
            [a EXCEPT !.employed = TRUE]
      [] OTHER -> a

\* executeAction without the job_search case.
executeAction_NoJobSearch(a, act) ==
    CASE act = "invest" ->
            LET amount == a.cash \div 5
            IN  [a EXCEPT !.investments = @ + amount, !.cash = @ - amount]
      [] act = "start_business" ->
            [a EXCEPT !.cash = @ - BUSINESS_COST,
                      !.business = [revenue |-> BUSINESS_REVENUE]]
      [] OTHER -> a

executeAction(a, act) ==
    CASE act = "invest" ->
            LET amount == a.cash \div 5
            IN  [a EXCEPT !.investments = @ + amount, !.cash = @ - amount]
      [] act = "start_business" ->
            [a EXCEPT !.cash = @ - BUSINESS_COST,
                      !.business = [revenue |-> BUSINESS_REVENUE]]
      [] act = "job_search" ->
            [a EXCEPT !.employed = TRUE]
      [] OTHER -> a

\* decisionEngine: the agent after the action, and the action.
decisionEngine(a, jitter) ==
    LET best == bestAction(a, jitter)
    IN  [ai |-> executeAction(a, best), action |-> best]

\* applyInvestments with a return a hundred times as wide: between -500%
\* and +500% a month.
applyInvestments_WideRate(a, rate) ==
    [a EXCEPT !.investments = @ + (@ * rate) \div 10]

\* applyInvestments; rate is (Math.random() - 0.5) * 0.1 in thousandths.
\* investments * (1 + rate), rounded down, without leaving 32 bits.
applyInvestments(a, rate) ==
    LET q == a.investments \div 1000
        m == a.investments % 1000
    IN  [a EXCEPT !.investments = @ + q * rate + ((m * rate) \div 1000)]

\* updateStress with <= for <: cash equal to rent counts as short.
updateStress_AtRent(a) ==
    LET s == IF a.cash <= a.rent THEN a.stress + RENT_STRESS ELSE a.stress
    IN  [a EXCEPT !.stress = Max(0, s - STRESS_RECOVERY)]

\* updateStress without the floor.
updateStress_NoFloor(a) ==
    LET s == IF a.cash < a.rent THEN a.stress + RENT_STRESS ELSE a.stress
    IN  [a EXCEPT !.stress = s - STRESS_RECOVERY]

updateStress(a) ==
    LET s == IF a.cash < a.rent THEN a.stress + RENT_STRESS ELSE a.stress
    IN  [a EXCEPT !.stress = Max(0, s - STRESS_RECOVERY)]

\* The closing test with <= for <.
checkBankrupt_AtZero(a) == IF a.cash <= 0 THEN [a EXCEPT !.alive = FALSE] ELSE a

\* The closing test of runMonth.
checkBankrupt(a) == IF a.cash < 0 THEN [a EXCEPT !.alive = FALSE] ELSE a

\* runMonth; d holds the month's draws: hustle, r, jitter and rate.
runMonth(a, recession, d) ==
    LET s1 == processIncome(a, d.hustle)
        s2 == processExpenses(s1)
        s3 == randomEvents(s2, recession, d.r)
        dec == decisionEngine(s3, d.jitter)
        s5 == applyInvestments(dec.ai, d.rate)
        s6 == updateStress(s5)
    IN  [ai |-> checkBankrupt(s6), action |-> dec.action]

----------------------------------------------------------------------------
(* The random draws *)

\* Math.random() of randomEvents, in thousandths: both sides of every band.
EventDraws == {0, 29, 30, 59, 60, 79, 80, 500, 999}

\* (Math.random() - 0.5) * 5 for each key, in tenths of a point: every
\* combination of the ends of [-2.5, 2.5), and the middle for all keys.
JitterTuples ==
    [1..Len(ActionKeys) -> {-25, 24}] \cup {[i \in 1..Len(ActionKeys) |-> 0]}

\* (Math.random() - 0.5) * 0.1, in thousandths: the ends of [-0.05, 0.05)
\* and its middle.
RateDraws == {-50, 0, 49}

\* 300 + Math.random() * 400, in dimes: the ends of [300, 700) and its middle.
HustleDraws == {Money(300), Money(500), Money(700) - 1}

\* The jitter that favours the k-th key most: the top of the range for it,
\* the bottom for the others.  An action that can win at all wins under it.
Favouring(k) == [i \in 1..Len(ActionKeys) |-> IF i = k THEN 24 ELSE -25]

\* The draws of a simulated month: one event draw per outcome of
\* randomEvents, no jitter or the jitter favouring one key, and the ends of
\* the return.
MonthDraws ==
    [hustle : {Money(500)},
     r : {20, 50, 500},
     jitter : {Favouring(k) : k \in 0..Len(ActionKeys)},
     rate : {-50, 49}]

\* The quiet draw: no event, no jitter, no return.
QuietDraw ==
    [hustle |-> Money(500), r |-> 500,
     jitter |-> [i \in 1..Len(ActionKeys) |-> 0], rate |-> 0]

----------------------------------------------------------------------------
(* The simulation: simulateMonth and the timer that calls it again *)

\* The body of the forEach labelling by alive after the month, not before.
simulateAgent_LabelAfter(a, recession, d) ==
    IF a.alive
    THEN LET o == runMonth(a, recession, d)
         IN  IF o.ai.alive THEN o ELSE [ai |-> o.ai, action |-> "BANKRUPT"]
    ELSE [ai |-> a, action |-> "BANKRUPT"]

\* The body of the forEach without the test of alive.
simulateAgent_NoSkip(a, recession, d) == runMonth(a, recession, d)

\* The body of the forEach of simulateMonth for one agent.
simulateAgent(a, recession, d) ==
    IF a.alive
    THEN runMonth(a, recession, d)
    ELSE [ai |-> a, action |-> "BANKRUPT"]

\* What one month can make of agent a, over the draws.
Outcomes(a, recession, draws) ==
    {simulateAgent(a, recession, d) : d \in draws}

\* The outcomes of the agents 1 .. n, processed one after the other.
RECURSIVE MonthOutcomes(_, _, _, _)
MonthOutcomes(as, recession, draws, n) ==
    IF n = 0
    THEN {<<>>}
    ELSE {Append(p, o) : p \in MonthOutcomes(as, recession, draws, n - 1),
                         o \in Outcomes(as[n], recession, draws)}

Simulated ==
    LET n == IF NumAgents < Len(Population) THEN NumAgents ELSE Len(Population)
    IN  SubSeq(Population, Len(Population) - n + 1, Len(Population))

Names == {Simulated[i].name : i \in 1..Len(Simulated)}

SimInit ==
    /\ agents = Simulated
    /\ currentMonth = 0
    /\ actions = <<>>
    /\ timer = TRUE

FnIdle ==
    /\ ai = Population[1]
    /\ pc = "done"
    /\ last = "none"
    /\ start = [ai |-> Population[1], step |-> "done"]
    /\ pre = Population[1]
    /\ draw = QuietDraw
    /\ action = "none"

\* economy.recession is a toggle of the script (shipped as true); both
\* settings are followed.
Init ==
    /\ economy \in [recession : BOOLEAN]
    /\ SimInit
    /\ FnIdle

\* The test that opens simulateMonth, with > for >=.
atHorizon_Late(month) == month > TOTAL_MONTHS

\* The test that opens simulateMonth: if (currentMonth >= TOTAL_MONTHS) return.
atHorizon(month) == month >= TOTAL_MONTHS

\* simulateMonth before the horizon: one month for every agent, the action
\* map handed to updateUI, and the next call scheduled.
simulateMonth(draws) ==
    /\ timer
    /\ ~atHorizon(currentMonth)
    /\ currentMonth' = currentMonth + 1
    /\ \E out \in MonthOutcomes(agents, economy.recession, draws, Len(agents)) :
          /\ agents' = [i \in 1..Len(agents) |-> out[i].ai]
          /\ actions' = [n \in Names |->
                           LET i == CHOOSE k \in 1..Len(agents) : agents[k].name = n
                           IN  out[i].action]
    /\ timer' = TRUE
    /\ UNCHANGED <<economy, fnVars>>

\* simulateMonth, followed for MaxMonths months over all the draws.
SimulateMonth ==
    /\ currentMonth < MaxMonths
    /\ simulateMonth(MonthDraws)

Next == SimulateMonth

Spec == Init /\ [][Next]_vars

\* The whole horizon: every month up to TOTAL_MONTHS with the draws of
\* QuietDraw, then the call that finds the horizon reached.
HorizonDraws == {QuietDraw}

HorizonMonth == simulateMonth(HorizonDraws)

\* simulateMonth at the horizon: it returns at once; nothing is scheduled.
SimulateMonthEnd ==
    /\ timer
    /\ atHorizon(currentMonth)
    /\ timer' = FALSE
    /\ UNCHANGED <<economy, agents, currentMonth, actions, fnVars>>

HorizonNext == HorizonMonth \/ SimulateMonthEnd

\* What a call of simulateMonth does to the month counter and to the timer.
TimerFires ==
    /\ timer
    /\ IF atHorizon(currentMonth)
       THEN currentMonth' = currentMonth /\ timer' = FALSE
       ELSE currentMonth' = currentMonth + 1 /\ timer' = TRUE

\* The pending call, made directly at load or by setTimeout, does run.
HorizonSpec ==
    Init /\ [][HorizonNext]_vars /\ WF_<<currentMonth, timer>>(TimerFires)

----------------------------------------------------------------------------
(* The functions of a month, one at a time: runMonth entered at any of its *)
(* steps with an agent drawn from AgentInputs, and followed to its end.    *)

Steps ==
    <<"processIncome", "processExpenses", "randomEvents", "decisionEngine",
      "applyInvestments", "updateStress", "checkBankrupt", "done">>

StepAfter(step) ==
    Steps[(CHOOSE i \in 1..Len(Steps) : Steps[i] = step) + 1]

\* The cash of the agents the functions are applied to: below zero, zero,
\* both sides of the rent, of three months of expenses and of the cash a
\* business needs, and larger amounts.
CashInputs ==
    {Money(-2400), 0, Money(100), Money(800) - 1, Money(800), Money(4500),
     Money(5000), Money(5500), Money(7200)}

AgentInputs ==
    {[Population[i] EXCEPT !.cash = c, !.employed = e, !.sideHustle = h,
                           !.business = b, !.stress = s, !.investments = v] :
        i \in 1..Len(Population), c \in CashInputs, e \in BOOLEAN,
        h \in BOOLEAN, b \in {null, [revenue |-> BUSINESS_REVENUE]},
        s \in {0, 3}, v \in {0, Money(1000)}}

FnInit ==
    /\ economy \in [recession : BOOLEAN]
    /\ SimInit
    /\ ai \in AgentInputs
    /\ pc \in {Steps[i] : i \in 1..Len(Steps) - 1}
    /\ last = "none"
    /\ start = [ai |-> ai, step |-> pc]
    /\ pre = ai
    /\ draw = QuietDraw
    /\ action = "none"

\* One function applied: ai becomes next, d is the draw it took.
Applied(step, next, d) ==
    /\ pc = step
    /\ pc' = StepAfter(step)
    /\ last' = step
    /\ pre' = ai
    /\ ai' = next
    /\ draw' = d
    /\ UNCHANGED <<economy, simVars, start>>

ProcessIncome ==
    \E h \in HustleDraws :
        /\ Applied("processIncome", processIncome(ai, h),
                   [QuietDraw EXCEPT !.hustle = h])
        /\ UNCHANGED action

ProcessExpenses ==
    /\ Applied("processExpenses", processExpenses(ai), QuietDraw)
    /\ UNCHANGED action

RandomEvents ==
    \E r \in EventDraws :
        /\ Applied("randomEvents", randomEvents(ai, economy.recession, r),
                   [QuietDraw EXCEPT !.r = r])
        /\ UNCHANGED action

DecisionEngine ==
    \E j \in JitterTuples :
        LET dec == decisionEngine(ai, j)
        IN  /\ Applied("decisionEngine", dec.ai, [QuietDraw EXCEPT !.jitter = j])
            /\ action' = dec.action

ApplyInvestments ==
    \E rate \in RateDraws :
        /\ Applied("applyInvestments", applyInvestments(ai, rate),
                   [QuietDraw EXCEPT !.rate = rate])
        /\ UNCHANGED action

UpdateStress ==
    /\ Applied("updateStress", updateStress(ai), QuietDraw)
    /\ UNCHANGED action

CheckBankrupt ==
    /\ Applied("checkBankrupt", checkBankrupt(ai), QuietDraw)
    /\ UNCHANGED action

FnNext ==
    \/ ProcessIncome
    \/ ProcessExpenses
    \/ RandomEvents
    \/ DecisionEngine
    \/ ApplyInvestments
    \/ UpdateStress
    \/ CheckBankrupt

FnSpec == FnInit /\ [][FnNext]_vars

\* The same functions applied to agents whose three costs are 0, which
\* createAI does not make but the functions accept.
ZeroCostInputs ==
    {[a EXCEPT !.rent = 0, !.food = 0, !.otherExpenses = 0] :
        a \in {b \in AgentInputs : b.stress = 0 /\ b.investments = 0}}

ZeroCostInit ==
    /\ economy \in [recession : BOOLEAN]
    /\ SimInit
    /\ ai \in ZeroCostInputs
    /\ pc \in {Steps[i] : i \in 1..Len(Steps) - 1}
    /\ last = "none"
    /\ start = [ai |-> ai, step |-> pc]
    /\ pre = ai
    /\ draw = QuietDraw
    /\ action = "none"

ZeroCostSpec == ZeroCostInit /\ [][FnNext]_vars

----------------------------------------------------------------------------
(* Properties of the simulation (Spec) *)

\* C1. Monotonic death: once an agent's alive is false it is never true
\* again, and a call of simulateMonth leaves every field of that agent as it
\* was, because runMonth is not invoked for it.
C1_MonotonicDeath ==
    [][\A i \in 1..Len(agents) :
          ~agents[i].alive => agents'[i] = agents[i]]_vars

\* A month has passed over an agent that was already dead: simulateMonth
\* gave it the placeholder label.
C1_Witness ==
    \E i \in 1..Len(agents) :
        /\ ~agents[i].alive
        /\ actions[agents[i].name] = "BANKRUPT"

\* C3. Stress floor: after any month, whatever event and action occurred,
\* every agent's stress is at least 0.
C3_StressFloor ==
    \A i \in 1..Len(agents) : agents[i].stress >= 0

\* A month in which the floor acted: the monthly recovery of 5 met a stress
\* below 5 and left it at 0.
C3_Witness ==
    /\ currentMonth >= 1
    /\ \E i \in 1..Len(agents) : agents[i].stress = 0 /\ agents[i].alive

----------------------------------------------------------------------------
(* Properties of the functions of a month (FnSpec) *)

\* C2. Insolvency rule: within a month alive changes only in the closing
\* test of runMonth, which makes it false exactly when cash is below 0 after
\* income, expenses, event, action and stress update; cash 0 leaves it true.
C2_Insolvency ==
    /\ last \notin {"none", "checkBankrupt"} => ai.alive = pre.alive
    /\ last = "checkBankrupt" =>
          /\ ai.alive = (pre.alive /\ ~(ai.cash < 0))
          /\ ai = [pre EXCEPT !.alive = ai.alive]

\* The closing test has just made an agent with negative cash bankrupt.
C2_Witness ==
    /\ last = "checkBankrupt"
    /\ pre.alive
    /\ ai.cash < 0
    /\ ~ai.alive

\* C4. Business creation is exactly-once: decisionEngine selects
\* start_business only for an agent without business and with cash above
\* 5000, the action then takes 5000 and creates a business of revenue 1000,
\* and no function of the month removes, replaces or changes a business
\* that exists or creates one otherwise.
C4_BusinessOnce ==
    /\ (last = "decisionEngine" /\ action = "start_business") =>
          /\ pre.business = null
          /\ pre.cash > Money(5000)
          /\ ai = [pre EXCEPT !.cash = pre.cash - Money(5000),
                              !.business = [revenue |-> Money(1000)]]
    /\ (last # "none" /\ pre.business # null) => ai.business = pre.business
    /\ (last # "none" /\ pre.business = null /\ ai.business # null) =>
          (last = "decisionEngine" /\ action = "start_business")

\* A business was started and the rest of the month has run over it.
C4_Witness ==
    /\ last = "checkBankrupt"
    /\ action = "start_business"
    /\ ai.business = [revenue |-> Money(1000)]

\* C5. Event exclusivity: one call of randomEvents either makes the agent
\* unemployed with stress + 20 and nothing else, or takes 2000 from cash and
\* nothing else, or changes nothing; and its outcome neither depends on
\* alive nor changes it.
C5_EventExclusive ==
    last = "randomEvents" =>
        /\ \/ ai = [pre EXCEPT !.employed = FALSE, !.stress = pre.stress + 20]
           \/ ai = [pre EXCEPT !.cash = pre.cash - Money(2000)]
           \/ ai = pre
        /\ randomEvents([pre EXCEPT !.alive = FALSE], economy.recession, draw.r)
              = [ai EXCEPT !.alive = FALSE]

\* The unexpected expense was applied, to an agent that keeps its job.
C5_Witness ==
    /\ last = "randomEvents"
    /\ pre.employed
    /\ ai = [pre EXCEPT !.cash = pre.cash - Money(2000)]

\* C6. Recession priority: with the recession flag set, randomEvents makes
\* the agent lose its job (unemployed, stress + 20) exactly for the draws
\* below 0.08, so the job-loss band is 8% wide and not 8% + 3%.
C6_RecessionBand ==
    (last = "randomEvents" /\ economy.recession) =>
        ((draw.r < 80) <=>
            ai = [pre EXCEPT !.employed = FALSE, !.stress = pre.stress + 20])

\* In a recession a draw just below 0.08 cost an employed agent its job.
C6_Witness ==
    /\ last = "randomEvents"
    /\ economy.recession
    /\ draw.r = 79
    /\ pre.employed
    /\ ~ai.employed

\* The keys whose score after the jitter no other key exceeds.
MaxKeys(scores) ==
    {i \in DOMAIN scores : \A k \in DOMAIN scores : scores[k] <= scores[i]}

FirstOf(S) == CHOOSE i \in S : \A k \in S : i <= k

LastOf(S) == CHOOSE i \in S : \A k \in S : k <= i

\* C7 as stated: the selected action is the first key, in the order save,
\* invest, start_business, job_search, whose score after the jitter no other
\* key exceeds.
C7_FirstWins ==
    last = "decisionEngine" =>
        action = ActionKeys[FirstOf(MaxKeys(jitteredScores(pre, draw.jitter)))]

\* C7, amended. The selected action is the last key, in the order save,
\* invest, start_business, job_search, whose score after the jitter no other
\* key exceeds: of two keys with equal greatest scores the later one wins.
C7_LastWins ==
    last = "decisionEngine" =>
        action = ActionKeys[LastOf(MaxKeys(jitteredScores(pre, draw.jitter)))]

\* Two keys had the same greatest score and the later one was selected.
C7_Witness ==
    /\ last = "decisionEngine"
    /\ LET M == MaxKeys(jitteredScores(pre, draw.jitter))
       IN  /\ Cardinality(M) = 2
           /\ action = ActionKeys[LastOf(M)]
           /\ action # ActionKeys[FirstOf(M)]

\* C8 as stated: there are an employed agent, among the agents the functions
\* are applied to and the one at hand, and jitter draws for which
\* decisionEngine selects job_search.
C8_PossibleWhenEmployed ==
    \E a \in AgentInputs \cup {ai, pre} : \E j \in JitterTuples :
        a.employed /\ bestAction(a, j) = "job_search"

\* C8, amended. job_search is never selected while the agent is employed:
\* no jitter draws in [-2.5, 2.5) lift its score of -100 to the greatest.
C8_NeverWhenEmployed ==
    (last = "decisionEngine" /\ pre.employed) => action # "job_search"

\* An employed agent decided under the jitter that favours job_search most,
\* with invest and start_business at -100 as well.
C8_Witness ==
    /\ last = "decisionEngine"
    /\ pre.employed
    /\ draw.jitter = Favouring(4)
    /\ baseScores(pre).invest = baseScores(pre).job_search
    /\ baseScores(pre).start_business = baseScores(pre).job_search
    /\ action = "save"

\* C9. Unemployed agents search for a job: for an unemployed agent with
\* emergencyMonths between 0 and 3, invest and start_business are scored
\* -100, decisionEngine selects job_search whatever the four jitter draws
\* are, and the agent is employed from then to the end of the month.
C9_JobSearch ==
    LET E == pre.rent + pre.food + pre.otherExpenses
    IN  /\ (/\ last = "decisionEngine"
            /\ ~pre.employed
            /\ 0 <= pre.cash
            /\ pre.cash <= 3 * E) =>
               /\ baseScores(pre).invest = E * Points(-100)
               /\ baseScores(pre).start_business = E * Points(-100)
               /\ action = "job_search"
               /\ ai.employed
        /\ last \in {"applyInvestments", "updateStress", "checkBankrupt"} =>
               ai.employed = pre.employed

\* The scenario of the claim (unemployed, cash 100, costs 1500): job_search
\* was selected and the agent is employed at the end of the month.
C9_Witness ==
    /\ last = "checkBankrupt"
    /\ action = "job_search"
    /\ ai.cash = Money(100) /\ ai.rent + ai.food + ai.otherExpenses = Money(1500)
    /\ ai.employed

\* C10. Income additivity: processIncome adds to cash exactly the sum of
\* the salary (if employed), a side-hustle draw in [300, 700) (if
\* sideHustle) and the business revenue (if a business exists), each source
\* on its own; processExpenses comes next and takes rent + food +
\* otherExpenses whatever the agent's state.
C10_Income ==
    /\ last = "processIncome" =>
          /\ draw.hustle >= Money(300) /\ draw.hustle < Money(700)
          /\ ai = [pre EXCEPT !.cash =
                      pre.cash
                        + (IF pre.employed THEN pre.salary ELSE 0)
                        + (IF pre.sideHustle THEN draw.hustle ELSE 0)
                        + (IF pre.business # null THEN pre.business.revenue ELSE 0)]
          /\ pc = "processExpenses"
    /\ last = "processExpenses" =>
          ai = [pre EXCEPT !.cash = pre.cash - (pre.rent + pre.food + pre.otherExpenses)]

\* An agent with all three sources was paid all three, and then the costs
\* were taken.
C10_Witness ==
    /\ last = "processExpenses"
    /\ ai.employed /\ ai.sideHustle /\ ai.business # null
    /\ \E c \in CashInputs, h \in HustleDraws :
          ai.cash = c + Money(2000) + h + Money(1000) - Money(1500)

----------------------------------------------------------------------------
(* Claims about the invest action *)

\* A run of runMonth that was entered at its first step.
WholeTick == start.step = "processIncome"

\* C11, as the specification words it: when invest is the action chosen in
\* a tick that began with cash C, the action adds a fifth of C to investments
\* and takes a fifth of C out of cash.
C11_FifthOfTickStartCash ==
    (WholeTick /\ last = "decisionEngine" /\ action = "invest") =>
        /\ ai.investments = pre.investments + start.ai.cash \div 5
        /\ ai.cash = pre.cash - start.ai.cash \div 5

\* C11, amended: when invest is the action chosen in a tick, the amount is a
\* fifth of the cash held at the moment of the action, that is of the cash
\* left after the income, the expenses and the event of the same tick;
\* investments, untouched until then, grow by it and cash shrinks by it.
C11_FifthOfCashAtAction ==
    (WholeTick /\ last = "decisionEngine" /\ action = "invest") =>
        \E hustle \in HustleDraws : \E r \in EventDraws :
            LET atAction ==
                    randomEvents(
                        processExpenses(processIncome(start.ai, hustle)),
                        economy.recession, r).cash
            IN  /\ pre.cash = atAction
                /\ ai.investments = start.ai.investments + atAction \div 5
                /\ ai.cash = atAction - atAction \div 5

\* invest was chosen in a whole tick whose income, expenses and event had
\* changed the cash before the action.
C11_Witness ==
    /\ WholeTick
    /\ last = "decisionEngine"
    /\ action = "invest"
    /\ pre.cash # start.ai.cash
    /\ ai.investments > start.ai.investments

\* C12: invest moves a fifth of the cash held at the moment of the action
\* (20%, to the last digit kept) from cash to investments: cash + investments
\* is the same before and after, and no other field changes.
C12_InvestConserves ==
    (last = "decisionEngine" /\ action = "invest") =>
        LET amount == pre.cash \div 5
        IN  /\ 5 * amount <= pre.cash
            /\ pre.cash < 5 * amount + 5
            /\ ai.cash + ai.investments = pre.cash + pre.investments
            /\ ai = [pre EXCEPT !.cash = @ - amount, !.investments = @ + amount]

\* invest moved a positive amount.
C12_Witness ==
    /\ last = "decisionEngine"
    /\ action = "invest"
    /\ ai.investments > pre.investments
    /\ ai.cash < pre.cash

----------------------------------------------------------------------------
(* Claims about the months of the simulation *)

\* C13: the map of a month has exactly one label for every agent; the label
\* is BANKRUPT exactly when the agent was not alive when the month began,
\* and otherwise it is one of the four actions, also in the month that
\* leaves the agent insolvent.
C13_ActionMap ==
    [][ /\ DOMAIN actions' = Names
        /\ \A i \in 1..Len(agents) :
              LET label == actions'[agents[i].name]
              IN  /\ label = "BANKRUPT" <=> ~agents[i].alive
                  /\ agents[i].alive =>
                        \E k \in 1..Len(ActionKeys) : label = ActionKeys[k]
      ]_vars

\* An agent the month left insolvent, labelled with the action of that month.
C13_Witness ==
    /\ DOMAIN actions = Names
    /\ \E i \in 1..Len(agents) :
          /\ ~agents[i].alive
          /\ \/ actions[agents[i].name] = "save"
             \/ actions[agents[i].name] = "invest"

\* C14: currentMonth goes from 0 to TOTAL_MONTHS one month at a time and never
\* beyond; the call made after month TOTAL_MONTHS changes no agent and
\* schedules nothing, and the simulation eventually stops there for good.
C14_Horizon ==
    /\ [](currentMonth \in 0..TOTAL_MONTHS)
    /\ [][ \/ /\ timer
              /\ currentMonth < TOTAL_MONTHS
              /\ currentMonth' = currentMonth + 1
              /\ timer'
           \/ /\ timer
              /\ currentMonth = TOTAL_MONTHS
              /\ currentMonth' = currentMonth
              /\ agents' = agents
              /\ ~timer'
      ]_vars
    /\ <>[](~timer /\ currentMonth = TOTAL_MONTHS)

\* The simulation has stopped after month TOTAL_MONTHS.
C14_Witness ==
    /\ ~timer
    /\ currentMonth = TOTAL_MONTHS
    /\ DOMAIN actions = Names

----------------------------------------------------------------------------
(* Claims about agents without costs *)

\* C15: when rent + food + otherExpenses is 0, the decision step fails
\* before anything is scored: no action is selected or executed and the
\* agent is as it was before the step.
C15_FailFast ==
    (last = "decisionEngine" /\ getContext(pre).expenses = 0) =>
        /\ action = "none"
        /\ ai = pre

----------------------------------------------------------------------------
(* Claims about what the months leave alone *)

\* C16: riskTolerance, discipline, intelligence, salary, rent, food and
\* otherExpenses of every agent are in every reachable state what createAI
\* gave them.
C16_FixedAttributes ==
    \A i \in 1..Len(agents) :
        /\ agents[i].riskTolerance = Simulated[i].riskTolerance
        /\ agents[i].discipline = Simulated[i].discipline
        /\ agents[i].intelligence = Simulated[i].intelligence
        /\ agents[i].salary = Simulated[i].salary
        /\ agents[i].rent = Simulated[i].rent
        /\ agents[i].food = Simulated[i].food
        /\ agents[i].otherExpenses = Simulated[i].otherExpenses

\* An agent that months, a job loss and start_business have changed.
C16_Witness ==
    \E i \in 1..Len(agents) :
        /\ agents[i].business # null
        /\ agents[i].stress > 0
        /\ agents[i].cash # Simulated[i].cash
        /\ agents[i].rent = Simulated[i].rent

\* C17: updateStress compares the cash left after the action with rent,
\* adds 15 when cash < rent and then subtracts 5 with a floor at 0; over a
\* whole tick stress rises by 30 (job loss and cash < rent), by 15 (job loss
\* only), by 10 (cash < rent only), or becomes max(0, stress - 5) (neither).
\* Only randomEvents and updateStress touch stress.
C17_StressRule ==
    /\ last = "updateStress" =>
          LET short == pre.cash < pre.rent
              raised == IF short THEN pre.stress + RENT_STRESS ELSE pre.stress
          IN  ai = [pre EXCEPT !.stress = Max(0, raised - STRESS_RECOVERY)]
    /\ last \in {"processIncome", "processExpenses", "decisionEngine",
                 "applyInvestments", "checkBankrupt"} =>
          ai.stress = pre.stress
    /\ last = "randomEvents" =>
          \/ ai.stress = pre.stress /\ ai.employed = pre.employed
          \/ ai.stress = pre.stress + JOB_LOSS_STRESS /\ ~ai.employed
    /\ (WholeTick /\ last = "updateStress") =>
          LET before == start.ai.stress
              jobLoss == pre.stress = before + JOB_LOSS_STRESS
              short == ai.cash < ai.rent
          IN  /\ jobLoss \/ pre.stress = before
              /\ ai.stress =
                    IF jobLoss /\ short THEN before + 30
                    ELSE IF jobLoss THEN before + 15
                    ELSE IF short THEN before + 10
                    ELSE Max(0, before - 5)

\* A whole tick with a job loss that left less cash than the rent.
C17_Witness ==
    /\ WholeTick
    /\ last = "updateStress"
    /\ ai.cash < ai.rent
    /\ pre.stress = start.ai.stress + JOB_LOSS_STRESS
    /\ ai.stress = start.ai.stress + 30

----------------------------------------------------------------------------
(* Claims that follow from the shipped configuration *)

C19_NoExpenseInRecession ==
    (last = "randomEvents" /\ economy.recession) => ai.cash = pre.cash

\* A draw of the expense band, taken by the recession job loss.
C19_Witness ==
    /\ last = "randomEvents"
    /\ economy.recession
    /\ draw.r >= JOB_LOSS
    /\ draw.r < UNEXPECTED_EXPENSE_BAND
    /\ ~ai.employed
    /\ ai.stress = pre.stress + JOB_LOSS_STRESS
    /\ ai.cash = pre.cash

\* C20: investments of every agent are >= 0 in every reachable state.
C20_InvestmentsNonNegative ==
    \A i \in 1..Len(agents) : agents[i].investments >= 0

\* An agent holding investments at the end of a month in which it did not
\* invest: only the return was applied to them.
C20_Witness ==
    \E i \in 1..Len(agents) :
        /\ agents[i].investments > 0
        /\ actions[agents[i].name] # "invest"
        /\ currentMonth >= 2

====
